---------------------------- MODULE Spec2Model ----------------------------
(***************************************************************************)
(* Printer discovery and metrics collection (madwonko/printersmanager).    *)
(*                                                                         *)
(* The module holds the SQLite store (tables printers and metrics), the    *)
(* operations of printer_monitor.py, auto_configure_monitoring.py and      *)
(* printer_web_dashboard.py that write it, and the metrics extractor with  *)
(* its percentage derivation.  The specifications share the variables:     *)
(*   Spec        the store under discovery, monitoring and the dashboard   *)
(*   SpecCore    the same without the dashboard's delete_printer           *)
(*   SpecExtract one run of get_printer_metrics_async against one device   *)
(*   SpecCalc    the derivation for one supply row                         *)
(*   SpecProbe   one snmp_get call                                         *)
(*   SpecScan    one discovery run and main's confirmation                 *)
(*   SpecLive    Spec with a running monitoring cycle taking its steps     *)
(*   SpecWalk    one snmp_walk of fix_toner_reading.py over one column     *)
(*   SpecUsage   one usage query over one table of readings                *)
(*   SpecRace    two upsert calls for one address on an empty store        *)
(*                                                                         *)
(* Python values: an optional value (None or v) is the sequence <<>> or    *)
(* <<v>>; text is a TLA+ string, so that lower(), `in`, strip() and int()  *)
(* are computed on the characters.                                         *)
(***************************************************************************)
EXTENDS Integers, Sequences, FiniteSets, TLC

VARIABLES
    printers,     \* table printers: set of rows
    metrics,      \* table metrics: set of rows
    seqPrinters,  \* sqlite_sequence of printers (AUTOINCREMENT: last id used)
    seqMetrics,   \* sqlite_sequence of metrics
    now,          \* the latest CURRENT_TIMESTAMP an INSERT has read
    addRet,       \* last add_printer_to_db call: its argument and return
    mon,          \* the monitor_printers cycle: position and locals
    saved,        \* history: successful save_metrics calls per printer id
    calls,        \* history: calls of add_printer_to_db and monitor_printers
    xpc, xdev, xidx, xmetrics, xres,   \* one get_printer_metrics_async run
    calcIn, calcOut,                   \* one supply row and what it derives
    probeImpl, probeIn, probeOut,      \* one snmp_get call: module, request outcome, return
    prog,            \* the discovery program running: its module, or "" for none
    subnet_list,     \* its input: sequence of [subnet, location]
    sidx,            \* index of the subnet under scan
    spc,             \* position of the program's main thread
    phase,           \* per subnet: "PENDING", "SWEEPING", "PROBING" or "DONE"
    pings,           \* futures of ping_ip for the subnet: ip -> [st, rc]
    live_hosts,      \* ping_sweep_windows' list
    tasks,           \* futures of scan_ip_sync for the subnet: ip -> [st, host, result]
    found,           \* scan_subnet's list `printers`
    all_printers,    \* scan_multiple_subnets' list
    origin,          \* history: for each entry of all_printers, its subnet's index
    swept,           \* history: per subnet, the addresses whose ping returned 0
    probed,          \* history: per subnet, the addresses given to scan_ip_sync
    response,        \* main: the answer to "Add ... printer(s) to database?"
    addq,            \* main: the printers its loop has yet to add
    wpc, wcol, widx, wresults,   \* one snmp_walk: position, the column walked, i, results
    usageIn, usageOut,           \* one usage query: its tables and window, its result
    race             \* two concurrent upsert calls: caller -> [fn, arg, model, pc, found, ret]

storeVars == <<printers, metrics, seqPrinters, seqMetrics, now, addRet, mon, saved, calls>>
extractVars == <<xpc, xdev, xidx, xmetrics, xres>>
calcVars == <<calcIn, calcOut>>
probeVars == <<probeImpl, probeIn, probeOut>>
scanVars == <<prog, subnet_list, sidx, spc, phase, pings, live_hosts, tasks, found,
              all_printers, origin, swept, probed, response, addq>>
walkVars == <<wpc, wcol, widx, wresults>>
usageVars == <<usageIn, usageOut>>
raceVars == <<race>>
vars == <<printers, metrics, seqPrinters, seqMetrics, now, addRet, mon, saved, calls,
          xpc, xdev, xidx, xmetrics, xres, calcIn, calcOut,
          probeImpl, probeIn, probeOut,
          prog, subnet_list, sidx, spc, phase, pings, live_hosts, tasks, found,
          all_printers, origin, swept, probed, response, addq,
          wpc, wcol, widx, wresults, usageIn, usageOut, race>>

----------------------------------------------------------------------------
(* Bounds of the model *)

MaxCalls == 3       \* calls of add_printer_to_db and monitor_printers in a run
MaxRows == 2        \* supply indexes 1..MaxRows of a device may be populated
MaxLevel == 3       \* small current_level values 0..MaxLevel
MaxCap == 3         \* small max_capacity values 0..MaxCap
MaxSentinel == 5    \* negative current_level values -MaxSentinel..-1
MaxSubnets == 2     \* subnets in the list a discovery run is given
MaxWalkRows == 6    \* indexes 1..MaxWalkRows of a walked column may answer
MaxSamples == 3     \* rows of metrics a usage query reads

----------------------------------------------------------------------------
(* Python values *)

None == <<>>
Some(v) == <<v>>
IsNone(o) == o = <<>>
Val(o) == o[1]

(* str.lower() on the ASCII letters *)
UpperLetters == "ABCDEFGHIJKLMNOPQRSTUVWXYZ"
LowerLetters == "abcdefghijklmnopqrstuvwxyz"

LowerChar(c) ==
    IF \E i \in 1..26 : SubSeq(UpperLetters, i, i) = c
    THEN LET i == CHOOSE j \in 1..26 : SubSeq(UpperLetters, j, j) = c
         IN  SubSeq(LowerLetters, i, i)
    ELSE c

RECURSIVE lower(_)
lower(s) == IF s = "" THEN "" ELSE LowerChar(Head(s)) \o lower(Tail(s))

(* `sub in s` on strings *)
Contains(s, sub) ==
    \E i \in 1..(Len(s) - Len(sub) + 1) : SubSeq(s, i, i + Len(sub) - 1) = sub

(* bool(value.strip()): some character is not whitespace *)
IsSpace(c) == c \in {" ", "\t", "\n", "\r"}
StripNonEmpty(s) == \E i \in 1..Len(s) : ~IsSpace(SubSeq(s, i, i))

(* int(text): optional sign, then decimal digits; anything else is a       *)
(* ValueError.  The values the devices of the model report carry no        *)
(* surrounding whitespace.                                                 *)
Digits == "0123456789"
IsDigit(c) == \E i \in 1..10 : SubSeq(Digits, i, i) = c
DigitVal(c) == (CHOOSE i \in 1..10 : SubSeq(Digits, i, i) = c) - 1

RECURSIVE DigitsVal(_, _)
DigitsVal(s, acc) ==
    IF s = "" THEN acc ELSE DigitsVal(Tail(s), 10 * acc + DigitVal(Head(s)))

Unsigned(s) == IF s # "" /\ Head(s) \in {"-", "+"} THEN Tail(s) ELSE s

IsIntText(s) ==
    /\ Unsigned(s) # ""
    /\ \A i \in 1..Len(Unsigned(s)) : IsDigit(SubSeq(Unsigned(s), i, i))

ParseInt(s) ==
    IF Head(s) = "-" THEN 0 - DigitsVal(Unsigned(s), 0) ELSE DigitsVal(Unsigned(s), 0)

----------------------------------------------------------------------------
(* SNMP: one request's outcome and snmp_get *)

(* What hlapi.getCmd gives for one OID: err is "none", "indication",       *)
(* "status" or "exception"; value is str(varBinds[0][1]).                  *)
Raw(err, value) == [err |-> err, value |-> value]
Answer(value) == Raw("none", value)
NoAnswer == Raw("indication", "")

(* snmp_get that takes any value the request gave *)
snmp_get_AnyValue(raw) ==
    IF raw.err = "none" THEN Some(raw.value) ELSE None

snmp_get(raw) ==
    IF raw.err = "exception" THEN None
    ELSE IF raw.err = "indication" THEN None
    ELSE IF raw.err = "status" THEN None
    ELSE IF ~Contains(raw.value, "No Such") /\ StripNonEmpty(raw.value)
         THEN Some(raw.value)
         ELSE None

(* The unit code of prtMarkerSuppliesSupplyUnit that denotes percent *)
UnitPercent == "19"
UnitTenthsOfGrams == "13"

SupplyKeys == {"description", "type", "unit", "max_capacity", "current_level"}

(* get_supply_info: the five attributes of one index that resolved; a key  *)
(* that did not resolve is None here and missing from the dict there.      *)
get_supply_info(dev, index) ==
    [k \in SupplyKeys |-> snmp_get(dev.supplies[index][k])]

SupplyIsEmpty(supply) == \A k \in SupplyKeys : IsNone(supply[k])

----------------------------------------------------------------------------
(* The percentage derivation *)

(* The pairs <<current, max>> with 0 <= current <= 150 and max in 1..10 or *)
(* max = 100 for which the IEEE-754 double value of (current/max)*100 lies *)
(* just below the integer 100*current/max, so that int() truncates to one  *)
(* less than the exact quotient.                                           *)
FloatShort ==
    { <<23, 5>>, <<41, 5>>, <<46, 5>>, <<51, 5>>, <<82, 5>>, <<87, 5>>,
      <<92, 5>>, <<97, 5>>, <<102, 5>>, <<23, 10>>, <<41, 10>>, <<46, 10>>,
      <<51, 10>>, <<82, 10>>, <<87, 10>>, <<92, 10>>, <<97, 10>>, <<102, 10>>,
      <<29, 100>>, <<57, 100>>, <<58, 100>>, <<113, 100>>, <<114, 100>>,
      <<115, 100>>, <<116, 100>> }

(* int((current_val / max_val) * 100) for current_val >= 0, max_val > 0 *)
FloatPct(current_val, max_val) ==
    ((100 * current_val) \div max_val)
        - (IF <<current_val, max_val>> \in FloatShort THEN 1 ELSE 0)

(* calculate_toner_percentage: <<percentage, status>> *)
calculate_toner_percentage(current, max_capacity) ==
    IF ~IsIntText(current) \/ ~IsIntText(max_capacity)
    THEN <<None, Some("Error")>>
    ELSE LET current_val == ParseInt(current)
             max_val == ParseInt(max_capacity)
         IN  IF current_val = -3 THEN <<None, Some("OK")>>
             ELSE IF current_val = -2 THEN <<None, Some("Unknown")>>
             ELSE IF current_val < 0
                  THEN <<None, Some("Status: " \o ToString(current_val))>>
             ELSE IF max_val > 0 /\ max_val # -2
                  THEN <<Some(FloatPct(current_val, max_val)), None>>
             ELSE <<None, Some("Cannot calculate")>>

----------------------------------------------------------------------------
(* get_printer_metrics_async *)

MetricKeys == {"total_pages", "model", "device_status",
               "toner_level_pct", "toner_status", "drum_level_pct"}

EmptyMetrics == [k \in MetricKeys |-> None]

(* int(value) under try/except ValueError: pass *)
IntOrNone(o) ==
    IF ~IsNone(o) /\ IsIntText(Val(o)) THEN Some(ParseInt(Val(o))) ELSE None

(* Lines 174-193: counter, model and device status *)
BasicInfo(dev) ==
    [EmptyMetrics EXCEPT
        !["total_pages"] = IntOrNone(snmp_get(dev.total_pages)),
        !["model"] = snmp_get(dev.model),
        !["device_status"] = IntOrNone(snmp_get(dev.device_status))]

IsTonerDesc(desc) == Contains(desc, "toner") /\ Contains(desc, "black")
IsDrumDesc(desc) == Contains(desc, "drum")

(* The body of the loop over the supply indexes, for one index *)
SupplyRowStep(m, supply) ==
    IF SupplyIsEmpty(supply) THEN m
    ELSE LET desc == lower(IF IsNone(supply["description"]) THEN ""
                           ELSE Val(supply["description"]))
             current == supply["current_level"]
             max_cap == supply["max_capacity"]
         IN  IF IsNone(current) \/ IsNone(max_cap) THEN m
             ELSE LET r == calculate_toner_percentage(Val(current), Val(max_cap))
                      pct == r[1]
                      status == r[2]
                  IN  IF IsTonerDesc(desc)
                      THEN IF ~IsNone(pct)
                           THEN [m EXCEPT !["toner_level_pct"] = pct]
                           ELSE IF ~IsNone(status)
                                THEN [m EXCEPT !["toner_status"] = status]
                                ELSE m
                      ELSE IF IsDrumDesc(desc)
                           THEN IF ~IsNone(pct)
                                THEN [m EXCEPT !["drum_level_pct"] = pct]
                                ELSE m
                           ELSE m

(* range(1, 10) *)
SupplyIndexFirst == 1
SupplyIndexStop == 10

(* return metrics, whatever it holds *)
MetricsOrNone_Always(m) == Some(m)

(* Line 226 *)
MetricsOrNone(m) ==
    IF \E k \in MetricKeys : ~IsNone(m[k]) THEN Some(m) ELSE None

RECURSIVE SupplyLoop(_, _, _)
SupplyLoop(dev, m, index) ==
    IF index >= SupplyIndexStop THEN m
    ELSE SupplyLoop(dev, SupplyRowStep(m, get_supply_info(dev, index)), index + 1)

get_printer_metrics_async(dev) ==
    MetricsOrNone(SupplyLoop(dev, BasicInfo(dev), SupplyIndexFirst))


----------------------------------------------------------------------------
(* Devices: what each OID of one printer answers *)

RowRaw(description, type, unit, max_capacity, current_level) ==
    [description |-> description, type |-> type, unit |-> unit,
     max_capacity |-> max_capacity, current_level |-> current_level]

EmptyRowRaw == RowRaw(NoAnswer, NoAnswer, NoAnswer, NoAnswer, NoAnswer)

NoSuchInstance == Answer("No Such Instance currently exists at this OID")

(* Supply rows a device may report at one index *)
RowChoices ==
    { EmptyRowRaw,
      RowRaw(Answer("Black Toner Cartridge"), Answer("3"), Answer(UnitTenthsOfGrams),
             Answer("100"), Answer("50")),
      RowRaw(Answer("Black Toner Cartridge"), Answer("3"), Answer(UnitTenthsOfGrams),
             Answer("100"), Answer("-3")),
      RowRaw(Answer("Black Toner Cartridge"), Answer("3"), Answer(UnitPercent),
             NoSuchInstance, Answer("17")),
      RowRaw(Answer("Drum Unit"), Answer("9"), Answer(UnitTenthsOfGrams),
             Answer("100"), Answer("80")),
      RowRaw(Answer("Drum Unit"), Answer("9"), Answer(UnitTenthsOfGrams),
             Answer("100"), Answer("-3")),
      RowRaw(Answer("Cyan Toner Cartridge"), Answer("3"), Answer(UnitTenthsOfGrams),
             Answer("100"), Answer("40")),
      RowRaw(Raw("status", ""), NoAnswer, NoAnswer, Answer("0"), Answer("2")) }

CounterChoices == { NoAnswer, Answer("1200"), Answer("N/A") }
ModelChoices == { Raw("status", ""), Answer("HP LaserJet") }
StatusChoices == { NoSuchInstance, Answer("2") }

SupplyIndexes == SupplyIndexFirst..(SupplyIndexStop - 1)

(* A device whose supply table is `rows` at the indexes 1..Len(rows) and   *)
(* answers nothing at the other indexes.                                   *)
Device(total_pages, model, device_status, rows) ==
    [total_pages |-> total_pages, model |-> model, device_status |-> device_status,
     supplies |-> [i \in SupplyIndexes |->
                      IF i <= Len(rows) THEN rows[i] ELSE EmptyRowRaw]]

Devices ==
    { Device(c, m, s, rows) :
        c \in CounterChoices, m \in ModelChoices, s \in StatusChoices,
        rows \in [1..MaxRows -> RowChoices] }

SilentDevice == Device(NoAnswer, NoAnswer, NoAnswer, <<>>)

----------------------------------------------------------------------------
(* SpecExtract: one run of get_printer_metrics_async, index by index *)

(* No run of the extractor *)
ExtractIdle ==
    /\ xpc = "idle" /\ xdev = None /\ xidx = 0
    /\ xmetrics = None /\ xres = None

ExtractInit ==
    /\ xpc = "start"
    /\ xdev \in Devices
    /\ xidx = 0
    /\ xmetrics = EmptyMetrics
    /\ xres = None

ExtractBasic ==
    /\ xpc = "start"
    /\ xmetrics' = BasicInfo(xdev)
    /\ xidx' = SupplyIndexFirst
    /\ xpc' = "supplies"
    /\ UNCHANGED <<xdev, xres>>

ExtractSupply ==
    /\ xpc = "supplies"
    /\ xidx < SupplyIndexStop
    /\ xmetrics' = SupplyRowStep(xmetrics, get_supply_info(xdev, xidx))
    /\ xidx' = xidx + 1
    /\ UNCHANGED <<xpc, xdev, xres>>

ExtractReturn ==
    /\ xpc = "supplies"
    /\ xidx >= SupplyIndexStop
    /\ xres' = MetricsOrNone(xmetrics)
    /\ xpc' = "done"
    /\ UNCHANGED <<xdev, xidx, xmetrics>>

----------------------------------------------------------------------------
(* SpecCalc: the derivation for one supply row, as get_supply_info gives it *)

SmallLevels == (0 - MaxSentinel)..MaxLevel
LevelTexts == { ToString(n) : n \in SmallLevels \cup {29, 30, 42, 100, 150} }
CapacityTexts == { ToString(n) : n \in {-2} \cup (0..MaxCap) \cup {100} }

CalcInputs ==
    [description : { Some("Black Toner Cartridge"), Some("Drum Unit") },
     type : { Some("3") },
     unit : { Some(UnitPercent), Some(UnitTenthsOfGrams) },
     max_capacity : { None } \cup { Some(t) : t \in CapacityTexts },
     current_level : { Some(t) : t \in LevelTexts }]

(* No row under derivation *)
CalcIdle == calcIn = None /\ calcOut = None

CalcInit == calcIn \in CalcInputs /\ calcOut = None

(* The loop body applied to a fresh metrics dict for the row calcIn: r is   *)
(* what calculate_toner_percentage returned when the loop body called it,  *)
(* m the metrics dict after the body.                                      *)
Derive ==
    /\ calcOut = None
    /\ calcOut' =
         Some([called |-> ~IsNone(calcIn["current_level"])
                            /\ ~IsNone(calcIn["max_capacity"]),
               r |-> IF IsNone(calcIn["current_level"]) \/ IsNone(calcIn["max_capacity"])
                     THEN <<None, None>>
                     ELSE calculate_toner_percentage(Val(calcIn["current_level"]),
                                                     Val(calcIn["max_capacity"])),
               m |-> SupplyRowStep(EmptyMetrics, calcIn)])
    /\ UNCHANGED calcIn


----------------------------------------------------------------------------
(* The store: tables printers and metrics (init_database) *)

Addrs == { "192.0.2.1", "192.0.2.2" }

(* What check_if_printer hands to add_printer_to_db: every key present,    *)
(* model 'Unknown' and name 'Printer-<ip>' when the device reported none.  *)
Candidates ==
    { [ip |-> ip, name |-> "LJ-Floor1", model |-> "HP LaserJet",
       location |-> "Main Office"] : ip \in Addrs }
    \cup
    { [ip |-> "192.0.2.1", name |-> "Printer-192.0.2.1", model |-> "Unknown",
       location |-> "Auto-discovered"] }

(* A row of printers; location and model are nullable *)
PrinterRow(id, ip, name, location, model, first_seen) ==
    [id |-> id, ip |-> ip, name |-> name, location |-> location,
     model |-> model, first_seen |-> first_seen]

(* ip TEXT NOT NULL without UNIQUE: no insert is refused *)
UniqueViolation_None(tbl, ip) == FALSE

(* ip TEXT UNIQUE NOT NULL: the insert of `ip` raises sqlite3.IntegrityError *)
UniqueViolation(tbl, ip) == \E r \in tbl : r.ip = ip

(* INSERT INTO printers (ip, name, location, model): id from AUTOINCREMENT, *)
(* first_seen DEFAULT CURRENT_TIMESTAMP                                    *)
InsertPrinter(tbl, lastId, ip, name, location, model, ts) ==
    tbl \cup { PrinterRow(lastId + 1, ip, name, location, model, ts) }

(* INSERT OR REPLACE in place of the UPDATE: the row is written anew and   *)
(* first_seen takes the present instant.                                   *)
UpdateByIp_Replace(tbl, printer) ==
    { IF r.ip = printer.ip
      THEN [r EXCEPT !.name = printer.name,
                     !.model = Some(printer.model),
                     !.location = Some(printer.location),
                     !.first_seen = now + 1]
      ELSE r : r \in tbl }

(* UPDATE printers SET name = ?, model = ? WHERE ip = ?: location left out *)
UpdateByIp_NoLocation(tbl, printer) ==
    { IF r.ip = printer.ip
      THEN [r EXCEPT !.name = printer.name, !.model = Some(printer.model)]
      ELSE r : r \in tbl }

(* UPDATE printers SET name = ?, model = ?, location = ? WHERE ip = ? *)
UpdateByIp(tbl, printer) ==
    { IF r.ip = printer.ip
      THEN [r EXCEPT !.name = printer.name,
                     !.model = Some(printer.model),
                     !.location = Some(printer.location)]
      ELSE r : r \in tbl }

(* UPDATE printers SET model = ?, first_seen = CURRENT_TIMESTAMP WHERE id = ? *)
UpdateModelIfNull_Touch(tbl, id, model) ==
    { IF r.id = id THEN [r EXCEPT !.model = Some(model), !.first_seen = now + 1] ELSE r :
        r \in tbl }

(* UPDATE printers SET model = ? WHERE id = ? *)
UpdateModelIfNull_Overwrite(tbl, id, model) ==
    { IF r.id = id THEN [r EXCEPT !.model = Some(model)] ELSE r : r \in tbl }

(* UPDATE printers SET model = ? WHERE id = ? AND model IS NULL *)
UpdateModelIfNull(tbl, id, model) ==
    { IF r.id = id /\ IsNone(r.model) THEN [r EXCEPT !.model = Some(model)] ELSE r :
        r \in tbl }

(* SELECT id FROM printers WHERE ip = ? and fetchone() *)
SelectIdByIp(tbl, ip) ==
    IF \E r \in tbl : r.ip = ip
    THEN Some((CHOOSE r \in tbl : r.ip = ip).id)
    ELSE None

(* A row of metrics *)
MetricRow(id, printer_id, ts, m) ==
    [id |-> id, printer_id |-> printer_id, timestamp |-> ts,
     total_pages |-> m["total_pages"],
     toner_level_pct |-> m["toner_level_pct"],
     toner_status |-> m["toner_status"],
     drum_level_pct |-> m["drum_level_pct"],
     device_status |-> m["device_status"]]

(* INSERT OR REPLACE keyed on printer_id: one sample a device *)
InsertMetric_Replace(tbl, lastId, printer_id, ts, m) ==
    { x \in tbl : x.printer_id # printer_id }
        \cup { MetricRow(lastId + 1, printer_id, ts, m) }

(* INSERT INTO metrics (printer_id, total_pages, ...): no foreign key check *)
(* (SQLite enforces none unless PRAGMA foreign_keys is set)                *)
InsertMetric(tbl, lastId, printer_id, ts, m) ==
    tbl \cup { MetricRow(lastId + 1, printer_id, ts, m) }

(* DELETE FROM metrics WHERE printer_id = ? / DELETE FROM printers WHERE id = ? *)
DeleteMetricsOf(tbl, printer_id) == { m \in tbl : m.printer_id # printer_id }
DeletePrinterRow(tbl, printer_id) == { r \in tbl : r.id # printer_id }

(* CURRENT_TIMESTAMP as an INSERT may read it: the instant of the latest    *)
(* INSERT still, or a later one.  Only recorded instants are ever compared, *)
(* so time is taken to move on only once the present instant is recorded.  *)
Recorded(ts) ==
    \/ \E r \in printers : r.first_seen = ts
    \/ \E m \in metrics : m.timestamp = ts

Instants == IF Recorded(now) THEN {now, now + 1} ELSE {now}

(* The ASCII order of the characters used, for ORDER BY name *)
Ascii == " -./0123456789:ABCDEFGHIJKLMNOPQRSTUVWXYZ_abcdefghijklmnopqrstuvwxyz"
Rank(c) == CHOOSE i \in 1..Len(Ascii) : SubSeq(Ascii, i, i) = c

RECURSIVE StrLeq(_, _)
StrLeq(a, b) ==
    IF a = "" THEN TRUE
    ELSE IF b = "" THEN FALSE
    ELSE IF Head(a) = Head(b) THEN StrLeq(Tail(a), Tail(b))
    ELSE Rank(Head(a)) < Rank(Head(b))

(* get_printers_from_db: SELECT ip, name, location FROM printers ORDER BY  *)
(* name; every order the rows may come in                                  *)
get_printers_from_db(tbl) ==
    LET S == { [ip |-> r.ip, name |-> r.name, location |-> r.location] : r \in tbl }
        n == Cardinality(S)
    IN  { q \in [1..n -> S] :
            /\ \A i, j \in 1..n : i # j => q[i] # q[j]
            /\ \A i, j \in 1..n : i < j => StrLeq(q[i].name, q[j].name) }

(* Devices a monitoring cycle may find at an address *)
MonitorDevices ==
    { SilentDevice,
      Device(NoAnswer, Answer("HP LaserJet"), NoAnswer, <<>>),
      Device(Answer("1200"), NoAnswer, Answer("idle"),
             << RowRaw(Answer("Black Toner Cartridge"), Answer("3"),
                       Answer(UnitTenthsOfGrams), Answer("100"), Answer("50")) >>) }

(* get_printer_metrics: asyncio.run of the extractor, any exception -> None *)
get_printer_metrics(dev) == get_printer_metrics_async(dev)

(* What get_printer_metrics(printer['ip']) may return in a cycle *)
MonitorOutcomes == { get_printer_metrics(dev) : dev \in MonitorDevices }

MonIdle == [pc |-> "idle", todo |-> <<>>, metrics |-> None, found |-> None,
            printer_id |-> 0]

StoreInit ==
    /\ printers = {}
    /\ metrics = {}
    /\ seqPrinters = 0
    /\ seqMetrics = 0
    /\ now = 0
    /\ addRet = None
    /\ mon = MonIdle
    /\ saved = <<>>
    /\ calls = 0

(* add_printer_to_db(printer): INSERT, and on IntegrityError UPDATE; the    *)
(* failed INSERT leaves the connection's write transaction open until the  *)
(* UPDATE commits, so no other writer comes between the two.  addRet keeps *)
(* the argument, the value returned and the rows of that ip before the     *)
(* call.                                                                   *)
add_printer_to_db(printer) ==
    /\ LET prior == { r \in printers : r.ip = printer.ip }
       IN  IF UniqueViolation(printers, printer.ip)
           THEN /\ printers' = UpdateByIp(printers, printer)
                /\ addRet' = Some([printer |-> printer, created |-> FALSE,
                                   prior |-> prior])
                /\ UNCHANGED <<seqPrinters, now>>
           ELSE \E ts \in Instants :
                /\ printers' = InsertPrinter(printers, seqPrinters, printer.ip,
                                             printer.name, Some(printer.location),
                                             Some(printer.model), ts)
                /\ seqPrinters' = seqPrinters + 1
                /\ now' = ts
                /\ addRet' = Some([printer |-> printer, created |-> TRUE,
                                   prior |-> prior])
    /\ UNCHANGED <<metrics, seqMetrics, mon, saved>>

(* A call of add_printer_to_db, counted *)
AddPrinterToDb(printer) ==
    /\ calls < MaxCalls
    /\ calls' = calls + 1
    /\ add_printer_to_db(printer)

(* monitor_printers: printers = get_printers_from_db(); empty -> return *)
MonitorStart ==
    /\ mon.pc = "idle"
    /\ calls < MaxCalls
    /\ calls' = calls + 1
    /\ \E q \in get_printers_from_db(printers) :
         mon' = IF q = <<>> THEN MonIdle
                ELSE [MonIdle EXCEPT !.pc = "collect", !.todo = q]
    /\ addRet' = None
    /\ UNCHANGED <<printers, metrics, seqPrinters, seqMetrics, now, saved>>

(* An exception leaves the loop: the cycle ends at the printer at hand *)
MonNext_Abort(m) == MonIdle

(* The loop goes on to the next printer, or the cycle is complete *)
MonNext(m) ==
    IF Len(m.todo) <= 1 THEN MonIdle
    ELSE [MonIdle EXCEPT !.pc = "collect", !.todo = Tail(m.todo)]

(* metrics = get_printer_metrics(printer['ip']); if metrics: ... else: ...  *)
(* and, with metrics, the SELECT of get_or_create_printer: collecting      *)
(* touches no table, so the SELECT is the step's only access to the store. *)
MonitorCollect ==
    /\ mon.pc = "collect"
    /\ \E got \in MonitorOutcomes :
             mon' = IF IsNone(got) THEN MonNext(mon)
                    ELSE [mon EXCEPT !.pc = "write", !.metrics = got,
                                     !.found = SelectIdByIp(printers, Head(mon.todo).ip)]
    /\ addRet' = None
    /\ UNCHANGED <<printers, metrics, seqPrinters, seqMetrics, now, saved, calls>>

(* get_or_create_printer after the SELECT: the UPDATE of a NULL model or    *)
(* the INSERT, whose IntegrityError monitor_printers catches (the loop     *)
(* goes to the next printer).                                              *)
GocWrite ==
    /\ mon.pc = "write"
    /\ LET p == Head(mon.todo)
           model == Val(mon.metrics)["model"]
       IN  IF ~IsNone(mon.found)
           THEN /\ printers' = IF ~IsNone(model)
                               THEN UpdateModelIfNull(printers, Val(mon.found), Val(model))
                               ELSE printers
                /\ mon' = [mon EXCEPT !.pc = "save", !.printer_id = Val(mon.found)]
                /\ UNCHANGED <<seqPrinters, now>>
           ELSE IF UniqueViolation(printers, p.ip)
                THEN /\ mon' = MonNext(mon)
                     /\ UNCHANGED <<printers, seqPrinters, now>>
                ELSE \E ts \in Instants :
                     /\ printers' = InsertPrinter(printers, seqPrinters, p.ip, p.name,
                                                  p.location, model, ts)
                     /\ seqPrinters' = seqPrinters + 1
                     /\ now' = ts
                     /\ mon' = [mon EXCEPT !.pc = "save", !.printer_id = seqPrinters + 1]
    /\ addRet' = None
    /\ UNCHANGED <<metrics, seqMetrics, saved, calls>>

(* save_metrics(printer_id, metrics) *)
SaveMetrics ==
    /\ mon.pc = "save"
    /\ \E ts \in Instants :
         /\ metrics' = InsertMetric(metrics, seqMetrics, mon.printer_id, ts,
                                    Val(mon.metrics))
         /\ now' = ts
    /\ seqMetrics' = seqMetrics + 1
    /\ saved' = IF mon.printer_id \in DOMAIN saved
                THEN [saved EXCEPT ![mon.printer_id] = @ + 1]
                ELSE saved @@ (mon.printer_id :> 1)
    /\ mon' = MonNext(mon)
    /\ addRet' = None
    /\ UNCHANGED <<printers, seqPrinters, calls>>

(* delete_printer(printer_id): both DELETEs in one transaction *)
DeletePrinter(printer_id) ==
    /\ metrics' = DeleteMetricsOf(metrics, printer_id)
    /\ printers' = DeletePrinterRow(printers, printer_id)
    /\ addRet' = None
    /\ UNCHANGED <<seqPrinters, seqMetrics, now, mon, saved, calls>>

----------------------------------------------------------------------------
(* SpecProbe: one snmp_get call *)

(* snmp_get of auto_configure_monitoring.py and printer_discovery.py *)
snmp_get_discovery(raw) ==
    IF raw.err = "exception" THEN None
    ELSE IF raw.err = "indication" \/ raw.err = "status" THEN None
    ELSE IF ~Contains(raw.value, "No Such") /\ StripNonEmpty(raw.value)
         THEN Some(raw.value)
         ELSE None

ProbeModules == { "printer_monitor", "auto_configure_monitoring" }

(* What one request may come to: hlapi.getCmd raises (network unreachable, *)
(* malformed response), reports an error indication or an error status, or *)
(* gives a value.                                                          *)
ProbeErrs == { "none", "indication", "status", "exception" }
ProbeValues ==
    { "", " ", " \t\n", "No Such Object currently exists at this OID",
      "No Such Instance currently exists at this OID", "noSuchName",
      "HP LaserJet", " 1200 ", "0" }
ProbeInputs == { Raw(e, v) : e \in ProbeErrs, v \in ProbeValues }

(* No call of snmp_get *)
ProbeIdle == probeImpl = "" /\ probeIn = None /\ probeOut = None

ProbeInit ==
    /\ probeImpl \in ProbeModules
    /\ probeIn \in { Some(r) : r \in ProbeInputs }
    /\ probeOut = None

(* The call: the whole body is inside try / except Exception, so what      *)
(* reaches the caller is a return value.                                   *)
ProbeCall ==
    /\ probeOut = None
    /\ probeOut' = Some([raised |-> FALSE,
                         ret |-> IF probeImpl = "printer_monitor"
                                 THEN snmp_get(Val(probeIn))
                                 ELSE snmp_get_discovery(Val(probeIn))])
    /\ UNCHANGED <<probeImpl, probeIn>>

----------------------------------------------------------------------------
(* Discovery: addresses, subnets and the classifier *)

(* Addresses are those of 192.0.2.0/24, held by their last octet; str(ip)  *)
(* writes the dotted form.                                                 *)
AddrText(n) == "192.0.2." \o ToString(n)

RECURSIVE Pow2(_)
Pow2(k) == IF k = 0 THEN 1 ELSE 2 * Pow2(k - 1)

(* ipaddress.ip_network(subnet, strict=False) for "192.0.2.<addr>/<prefixlen>": *)
(* the host bits of the address are cleared.                               *)
ip_network(subnet) ==
    LET size == Pow2(32 - subnet.prefixlen)
        base == subnet.addr - (subnet.addr % size)
    IN  [network_address |-> base, broadcast_address |-> base + size - 1,
         prefixlen |-> subnet.prefixlen]

(* hosts() that gives every address of the network *)
hosts_All(network) == network.network_address..network.broadcast_address

(* IPv4Network.hosts(): the addresses but the network and the broadcast    *)
(* address; both addresses of a /31; the one address of a /32.             *)
hosts(network) ==
    IF network.prefixlen >= 31
    THEN network.network_address..network.broadcast_address
    ELSE (network.network_address + 1)..(network.broadcast_address - 1)

printer_keywords ==
    { "printer", "print", "laser", "inkjet", "multifunction",
      "hp", "canon", "epson", "brother", "xerox", "ricoh",
      "samsung", "lexmark", "kyocera", "sharp", "dell",
      "konica", "oki", "toshiba", "copystation", "mfp" }

(* What a host answers to the four OIDS of the classifier *)
Host(sysDescr, sysName, model, total_pages) ==
    [sysDescr |-> sysDescr, sysName |-> sysName, model |-> model,
     total_pages |-> total_pages]

(* any(keyword in sys_descr for keyword in printer_keywords) *)
is_printer_CaseSensitive(sys_descr) ==
    \E keyword \in printer_keywords : Contains(sys_descr, keyword)

(* any(keyword in sys_descr.lower() for keyword in printer_keywords) *)
is_printer(sys_descr) ==
    LET lowered == lower(sys_descr)
    IN  \E keyword \in printer_keywords : Contains(lowered, keyword)


(* check_if_printer of auto_configure_monitoring.py *)
check_if_printer(ip, location, host) ==
    LET sys_descr == snmp_get_discovery(host.sysDescr)
    IN  IF IsNone(sys_descr) THEN None
        ELSE IF is_printer(Val(sys_descr))
        THEN LET name == snmp_get_discovery(host.sysName)
                 model == snmp_get_discovery(host.model)
                 total_pages == snmp_get_discovery(host.total_pages)
             IN  Some([ip |-> ip,
                       name |-> IF ~IsNone(name) THEN Val(name)
                                ELSE IF ~IsNone(model) THEN Val(model)
                                ELSE "Printer-" \o ip,
                       description |-> Val(sys_descr),
                       model |-> IF ~IsNone(model) THEN Val(model) ELSE "Unknown",
                       total_pages |-> IF ~IsNone(total_pages) THEN Val(total_pages)
                                       ELSE "N/A",
                       location |-> location])
        ELSE None

(* check_if_printer of printer_discovery.py: no location, name 'Unknown' *)
check_if_printer_discovery(ip, host) ==
    LET sys_descr == snmp_get_discovery(host.sysDescr)
    IN  IF IsNone(sys_descr) THEN None
        ELSE IF is_printer(Val(sys_descr))
        THEN LET name == snmp_get_discovery(host.sysName)
                 model == snmp_get_discovery(host.model)
                 total_pages == snmp_get_discovery(host.total_pages)
             IN  Some([ip |-> ip,
                       name |-> IF ~IsNone(name) THEN Val(name) ELSE "Unknown",
                       description |-> Val(sys_descr),
                       model |-> IF ~IsNone(model) THEN Val(model) ELSE "Unknown",
                       total_pages |-> IF ~IsNone(total_pages) THEN Val(total_pages)
                                       ELSE "N/A"])
        ELSE None

(* generate_config_snippet of printer_discovery.py: the name it prints for *)
(* a printer, name = printer['name'] if printer['name'] != 'Unknown' else  *)
(* printer['model']                                                        *)
config_snippet_name(printer) ==
    IF printer.name # "Unknown" THEN printer.name ELSE printer.model

(* scan_ip_sync: asyncio.run(check_if_printer(...)); a falsy result or an  *)
(* exception gives None.                                                   *)
scan_ip_sync(program, ip, location, host) ==
    IF program = "auto_configure_monitoring"
    THEN check_if_printer(ip, location, host)
    ELSE check_if_printer_discovery(ip, host)

----------------------------------------------------------------------------
(* SpecScan: a discovery run, subnet by subnet, and main's confirmation *)

MAX_THREADS == 20

Programs == { "auto_configure_monitoring", "printer_discovery" }

(* Lines of subnets.txt as read_subnets_from_file gives them *)
SubnetChoices ==
    { [subnet |-> [addr |-> 1, prefixlen |-> 30], location |-> "Main Office"],
      [subnet |-> [addr |-> 4, prefixlen |-> 31], location |-> "Auto-discovered"],
      [subnet |-> [addr |-> 9, prefixlen |-> 32], location |-> "Lab"] }

(* The lists of one to MaxSubnets subnets, each named once *)
SubnetLists ==
    { q \in UNION { [1..n -> SubnetChoices] : n \in 1..MaxSubnets } :
        \A i, j \in 1..Len(q) : i # j => q[i] # q[j] }

(* subprocess.run of ping: return code 0, another return code, or          *)
(* TimeoutExpired                                                          *)
PingOutcomes == { "0", "1", "TimeoutExpired" }

(* ping_ip: the address for return code 0, None otherwise (bare except) *)
ping_ip(ip, outcome) == IF outcome = "0" THEN Some(ip) ELSE None

HostChoices ==
    { Host(NoAnswer, NoAnswer, NoAnswer, NoAnswer),
      Host(Answer("Linux gateway 5.4"), Answer("gw1"), NoAnswer, NoAnswer),
      Host(Answer("HP LaserJet 400"), Answer("LJ-Floor1"), Answer("HP LaserJet"),
           Answer("1200")),
      Host(Answer("KYOCERA Document Solutions MFP"), NoAnswer, NoSuchInstance,
           NoAnswer) }

(* input(...).strip().lower(); the answers typed carry no blanks around *)
ResponsesTyped == { "Y", "n" }
Confirms_Always(answer) == TRUE
Confirms(answer) == answer \in { "", "y", "yes" }

HostAddrs(entry) == { AddrText(n) : n \in hosts(ip_network(entry.subnet)) }

(* No discovery run *)
ScanIdle ==
    /\ prog = "" /\ subnet_list = <<>> /\ sidx = 0 /\ spc = "idle"
    /\ phase = <<>> /\ pings = <<>> /\ live_hosts = <<>> /\ tasks = <<>>
    /\ found = <<>> /\ all_printers = <<>> /\ origin = <<>>
    /\ swept = <<>> /\ probed = <<>> /\ response = "" /\ addq = <<>>

(* main has its subnet_list; printer_discovery.py scans one subnet *)
ScanInit ==
    /\ prog \in Programs
    /\ subnet_list \in SubnetLists
    /\ prog = "printer_discovery" => Len(subnet_list) = 1
    /\ sidx = 1 /\ spc = "loop"
    /\ phase = [i \in 1..Len(subnet_list) |-> "PENDING"]
    /\ swept = [i \in 1..Len(subnet_list) |-> {}]
    /\ probed = [i \in 1..Len(subnet_list) |-> {}]
    /\ pings = <<>> /\ live_hosts = <<>> /\ tasks = <<>> /\ found = <<>>
    /\ all_printers = <<>> /\ origin = <<>> /\ response = "" /\ addq = <<>>

(* scan_subnet -> ping_sweep_windows: a ping_ip future for every host *)
SubnetStart ==
    /\ spc = "loop"
    /\ sidx <= Len(subnet_list)
    /\ phase' = [phase EXCEPT ![sidx] = "SWEEPING"]
    /\ pings' = [ip \in HostAddrs(subnet_list[sidx]) |-> [st |-> "pending", rc |-> ""]]
    /\ live_hosts' = <<>>
    /\ spc' = "sweep"
    /\ UNCHANGED <<prog, subnet_list, sidx, tasks, found, all_printers, origin, swept,
                   probed, response, addq>>

(* A worker of the sweep's pool runs ping_ip(ip) *)
PingRun(ip) ==
    /\ spc = "sweep"
    /\ pings[ip].st = "pending"
    /\ \E outcome \in PingOutcomes :
         pings' = [pings EXCEPT ![ip] = [st |-> "done", rc |-> outcome]]
    /\ UNCHANGED <<prog, subnet_list, sidx, spc, phase, live_hosts, tasks, found,
                   all_printers, origin, swept, probed, response, addq>>

(* for future in as_completed(futures): a finished future not yet taken *)
SweepCollect(ip) ==
    /\ spc = "sweep"
    /\ pings[ip].st = "done"
    /\ pings' = [pings EXCEPT ![ip].st = "taken"]
    /\ live_hosts' = IF ~IsNone(ping_ip(ip, pings[ip].rc))
                     THEN Append(live_hosts, Val(ping_ip(ip, pings[ip].rc)))
                     ELSE live_hosts
    /\ UNCHANGED <<prog, subnet_list, sidx, spc, phase, tasks, found, all_printers,
                   origin, swept, probed, response, addq>>

(* The loop over as_completed left at once *)
AllTaken_Any(futures) == TRUE

(* Every future of the pool has been taken *)
AllTaken(futures) == \A ip \in DOMAIN futures : futures[ip].st = "taken"

SeqToSet(q) == { q[i] : i \in 1..Len(q) }

SubmitScans(targets) ==
    /\ tasks' = [ip \in targets |-> [st |-> "pending", host |-> None, result |-> None]]
    /\ probed' = [probed EXCEPT ![sidx] = targets]
    /\ phase' = [phase EXCEPT ![sidx] = "PROBING"]
    /\ found' = <<>>
    /\ spc' = "probe"

(* ping_sweep_windows returns no host to scan_subnet of                    *)
(* auto_configure_monitoring.py: return []                                 *)
SweepEmpty ==
    /\ spc = "sweep"
    /\ AllTaken(pings)
    /\ prog = "auto_configure_monitoring"
    /\ live_hosts = <<>>
    /\ swept' = [swept EXCEPT ![sidx] = {}]
    /\ phase' = [phase EXCEPT ![sidx] = "DONE"]
    /\ pings' = <<>>
    /\ sidx' = sidx + 1
    /\ spc' = "loop"
    /\ UNCHANGED <<prog, subnet_list, live_hosts, tasks, found, all_printers, origin,
                   probed, response, addq>>

(* ping_sweep_windows returns live hosts: a scan_ip_sync future for each *)
SweepLive ==
    /\ spc = "sweep"
    /\ AllTaken(pings)
    /\ live_hosts # <<>>
    /\ swept' = [swept EXCEPT ![sidx] = SeqToSet(live_hosts)]
    /\ SubmitScans(SeqToSet(live_hosts))
    /\ UNCHANGED <<prog, subnet_list, sidx, pings, live_hosts, all_printers, origin,
                   response, addq>>

(* printer_discovery.py main, no live host: scan_subnet(subnet) submits    *)
(* scan_ip_sync for every host of the network                              *)
SweepFallback ==
    /\ spc = "sweep"
    /\ AllTaken(pings)
    /\ prog = "printer_discovery"
    /\ live_hosts = <<>>
    /\ swept' = [swept EXCEPT ![sidx] = {}]
    /\ SubmitScans(HostAddrs(subnet_list[sidx]))
    /\ UNCHANGED <<prog, subnet_list, sidx, pings, live_hosts, all_printers, origin,
                   response, addq>>

Running(futures) == { ip \in DOMAIN futures : futures[ip].st = "running" }

(* A worker of the pool of max_threads takes up scan_ip_sync(ip, location) *)
ClassifyStart(ip) ==
    /\ spc = "probe"
    /\ tasks[ip].st = "pending"
    /\ Cardinality(Running(tasks)) < MAX_THREADS
    /\ tasks' = [tasks EXCEPT ![ip].st = "running"]
    /\ UNCHANGED <<prog, subnet_list, sidx, spc, phase, pings, live_hosts, found,
                   all_printers, origin, swept, probed, response, addq>>

(* scan_ip_sync returns, for what the host at ip answered *)
ClassifyEnd(ip) ==
    /\ spc = "probe"
    /\ tasks[ip].st = "running"
    /\ \E host \in HostChoices :
         tasks' = [tasks EXCEPT ![ip] =
                      [st |-> "done", host |-> Some(host),
                       result |-> scan_ip_sync(prog, ip, subnet_list[sidx].location,
                                               host)]]
    /\ UNCHANGED <<prog, subnet_list, sidx, spc, phase, pings, live_hosts, found,
                   all_printers, origin, swept, probed, response, addq>>

(* for future in as_completed(future_to_ip): if result: printers.append *)
ProbeCollect(ip) ==
    /\ spc = "probe"
    /\ tasks[ip].st = "done"
    /\ tasks' = [tasks EXCEPT ![ip].st = "taken"]
    /\ found' = IF ~IsNone(tasks[ip].result)
                THEN Append(found, Val(tasks[ip].result))
                ELSE found
    /\ UNCHANGED <<prog, subnet_list, sidx, spc, phase, pings, live_hosts,
                   all_printers, origin, swept, probed, response, addq>>

(* all_printers.extend(printers), put before the devices of earlier subnets *)
extend_Front(batch, more) == more \o batch

(* all_printers.extend(printers) *)
extend(batch, more) == batch \o more

(* scan_subnet returns printers; scan_multiple_subnets extends its list *)
SubnetDone ==
    /\ spc = "probe"
    /\ AllTaken(tasks)
    /\ all_printers' = extend(all_printers, found)
    /\ origin' = extend(origin, [i \in 1..Len(found) |-> sidx])
    /\ phase' = [phase EXCEPT ![sidx] = "DONE"]
    /\ pings' = <<>> /\ tasks' = <<>> /\ found' = <<>> /\ live_hosts' = <<>>
    /\ sidx' = sidx + 1
    /\ spc' = "loop"
    /\ UNCHANGED <<prog, subnet_list, swept, probed, response, addq>>

(* scan_multiple_subnets returns all_printers *)
ScanReturn ==
    /\ spc = "loop"
    /\ sidx > Len(subnet_list)
    /\ spc' = "scanned"
    /\ UNCHANGED <<prog, subnet_list, sidx, phase, pings, live_hosts, tasks, found,
                   all_printers, origin, swept, probed, response, addq>>

(* printer_discovery.py main: report, config snippet and CSV; no database *)
ReportOnly ==
    /\ spc = "scanned"
    /\ prog = "printer_discovery"
    /\ spc' = "end"
    /\ UNCHANGED <<prog, subnet_list, sidx, phase, pings, live_hosts, tasks, found,
                   all_printers, origin, swept, probed, response, addq>>

(* auto_configure_monitoring.py main: nothing found, or the question *)
MainAsk ==
    /\ spc = "scanned"
    /\ prog = "auto_configure_monitoring"
    /\ IF all_printers = <<>>
       THEN spc' = "end" /\ UNCHANGED <<response, addq>>
       ELSE \E typed \in ResponsesTyped :
              /\ response' = lower(typed)
              /\ IF Confirms(lower(typed))
                 THEN spc' = "adding" /\ addq' = all_printers
                 ELSE spc' = "end" /\ addq' = addq
    /\ UNCHANGED <<prog, subnet_list, sidx, phase, pings, live_hosts, tasks, found,
                   all_printers, origin, swept, probed>>

(* for printer in printers: add_printer_to_db(printer) *)
MainAdd ==
    /\ spc = "adding"
    /\ addq # <<>>
    /\ add_printer_to_db(Head(addq))
    /\ addq' = Tail(addq)
    /\ spc' = IF Len(addq) = 1 THEN "end" ELSE "adding"
    /\ UNCHANGED <<calls, prog, subnet_list, sidx, phase, pings, live_hosts, tasks,
                   found, all_printers, origin, swept, probed, response>>

----------------------------------------------------------------------------
(* snmp_walk of fix_toner_reading.py *)

WalkIndexFirst == 1     \* for i in range(1, 20)
WalkIndexStop == 20
WalkGapFloor == 5       \* if i > 5 and len(results) > 0: break

WalkIndexes == WalkIndexFirst..(WalkIndexStop - 1)

(* What the request for one index of the column may come to *)
WalkAnswers == { Answer("3"), NoSuchInstance, NoAnswer, Raw("exception", "") }

(* A column that may answer at the indexes 1..MaxWalkRows and has no       *)
(* instance at the others                                                  *)
WalkColumns ==
    { [i \in WalkIndexes |-> IF i <= MaxWalkRows THEN q[i] ELSE NoSuchInstance] :
        q \in [1..MaxWalkRows -> WalkAnswers] }

WalkIdle == wpc = "idle" /\ wcol = <<>> /\ widx = 0 /\ wresults = <<>>

(* results = []; the loop is at its first index *)
WalkInit ==
    /\ wpc = "loop"
    /\ wcol \in WalkColumns
    /\ widx = WalkIndexFirst
    /\ wresults = <<>>

(* One turn of the loop: an error or an exception breaks; a value is       *)
(* appended as (oid, value), the oid kept as its last number; a missing    *)
(* value breaks only past index 5 with a result at hand.  After the loop   *)
(* the results are returned.                                               *)
WalkProbe ==
    /\ wpc = "loop"
    /\ widx < WalkIndexStop
    /\ LET raw == wcol[widx]
       IN  IF raw.err # "none"
           THEN wpc' = "done" /\ UNCHANGED <<widx, wresults>>
           ELSE IF ~Contains(raw.value, "No Such") /\ StripNonEmpty(raw.value)
                   /\ raw.value # ""
           THEN /\ wresults' = Append(wresults, <<widx, raw.value>>)
                /\ widx' = widx + 1
                /\ UNCHANGED wpc
           ELSE IF widx > WalkGapFloor /\ Len(wresults) > 0
           THEN wpc' = "done" /\ UNCHANGED <<widx, wresults>>
           ELSE widx' = widx + 1 /\ UNCHANGED <<wpc, wresults>>
    /\ UNCHANGED wcol

(* range(1, 20) is used up: return results *)
WalkReturn ==
    /\ wpc = "loop"
    /\ widx >= WalkIndexStop
    /\ wpc' = "done"
    /\ UNCHANGED <<wcol, widx, wresults>>

----------------------------------------------------------------------------
(* The usage queries: generate_usage_report and get_printer_usage *)

PageCounts == { 10, 20, 30 }
UsageInstants == 0..1
UsagePrinters == 1..2

(* The columns of metrics the queries read *)
UsageRow(id, printer_id, ts, total_pages) ==
    [id |-> id, printer_id |-> printer_id, timestamp |-> ts,
     total_pages |-> total_pages]

(* Tables of up to MaxSamples rows as save_metrics leaves them: ids in the *)
(* order of insertion, timestamps not going back                           *)
UsageTables ==
    UNION { { { UsageRow(i, q[i].printer_id, q[i].timestamp, q[i].total_pages) :
                  i \in 1..n } :
              q \in { f \in [1..n -> [printer_id : UsagePrinters,
                                     timestamp : UsageInstants,
                                     total_pages : {None} \cup
                                                   { Some(c) : c \in PageCounts }]] :
                        \A i, j \in 1..n : i < j => f[i].timestamp <= f[j].timestamp } } :
            n \in 0..MaxSamples }

(* WHERE printer_id = ? AND timestamp >= datetime('now', '-N days') AND     *)
(* total_pages IS NOT NULL                                                 *)
UsageWindow(tbl, printer_id, cutoff) ==
    { m \in tbl : /\ m.printer_id = printer_id
                  /\ m.timestamp >= cutoff
                  /\ ~IsNone(m.total_pages) }

(* MIN(total_pages), MAX(total_pages): NULL over no row *)
SqlMin(rows) ==
    IF rows = {} THEN None
    ELSE Some(CHOOSE x \in { Val(m.total_pages) : m \in rows } :
                 \A m \in rows : x <= Val(m.total_pages))

SqlMax(rows) ==
    IF rows = {} THEN None
    ELSE Some(CHOOSE x \in { Val(m.total_pages) : m \in rows } :
                 \A m \in rows : x >= Val(m.total_pages))

(* The last reading minus the first, in the order of timestamp and id *)
pages_printed_LastMinusFirst(rows) ==
    IF rows = {} THEN None
    ELSE LET before(a, b) == a.timestamp < b.timestamp
                                \/ (a.timestamp = b.timestamp /\ a.id <= b.id)
             first == CHOOSE a \in rows : \A b \in rows : before(a, b)
             last == CHOOSE a \in rows : \A b \in rows : before(b, a)
         IN  Some(Val(last.total_pages) - Val(first.total_pages))

(* MAX(total_pages) - MIN(total_pages) as pages_printed *)
pages_printed(rows) ==
    IF rows = {} THEN None
    ELSE Some(Val(SqlMax(rows)) - Val(SqlMin(rows)))

(* get_printer_usage(printer_id, days): the one row of the aggregate query *)
get_printer_usage(tbl, printer_id, cutoff) ==
    LET rows == UsageWindow(tbl, printer_id, cutoff)
    IN  [start_pages |-> SqlMin(rows), end_pages |-> SqlMax(rows),
         pages_printed |-> pages_printed(rows), readings |-> Cardinality(rows)]

(* generate_usage_report(days): printers JOIN metrics GROUP BY p.id, a row  *)
(* for every printer with a reading in the window                          *)
generate_usage_report(ids, tbl, cutoff) ==
    { [printer_id |-> id, usage |-> get_printer_usage(tbl, id, cutoff)] :
        id \in { i \in ids : UsageWindow(tbl, i, cutoff) # {} } }

UsageIdle == usageIn = None /\ usageOut = None

UsageInit ==
    /\ usageIn \in { Some([printers |-> ids, metrics |-> tbl, cutoff |-> c]) :
                       ids \in { {1}, UsagePrinters }, tbl \in UsageTables,
                       c \in UsageInstants }
    /\ usageOut = None

UsageQuery(printer_id) ==
    /\ usageOut = None
    /\ usageOut' = Some([fn |-> "get_printer_usage", printer_id |-> printer_id,
                         rows |-> { [printer_id |-> printer_id,
                                     usage |-> get_printer_usage(Val(usageIn).metrics,
                                                  printer_id, Val(usageIn).cutoff)] }])
    /\ UNCHANGED usageIn

UsageReport ==
    /\ usageOut = None
    /\ usageOut' = Some([fn |-> "generate_usage_report", printer_id |-> 0,
                         rows |-> generate_usage_report(Val(usageIn).printers,
                                     Val(usageIn).metrics, Val(usageIn).cutoff)])
    /\ UNCHANGED usageIn

----------------------------------------------------------------------------
(* Two upsert calls for one address at once *)

RaceCallers == 1..2
RaceAddr == "192.0.2.1"

(* The calls: add_printer_to_db(printer), or get_or_create_printer(ip,     *)
(* name, location, model) with or without a model                          *)
RaceCalls ==
    { [fn |-> "add_printer_to_db", arg |-> c, model |-> Some(c.model)] :
        c \in { x \in Candidates : x.ip = RaceAddr } }
    \cup
    { [fn |-> "get_or_create_printer", arg |-> c, model |-> m] :
        c \in { x \in Candidates : x.ip = RaceAddr },
        m \in { None, Some("HP LaserJet") } }

RaceIdle == race = <<>>

RaceInit ==
    race \in { [c \in RaceCallers |->
                  [fn |-> q[c].fn, arg |-> q[c].arg, model |-> q[c].model,
                   pc |-> "call", found |-> None, ret |-> 0]] :
               q \in [RaceCallers -> RaceCalls] }

(* add_printer_to_db by caller c: one write transaction *)
RaceAdd(c) ==
    /\ race[c].fn = "add_printer_to_db"
    /\ race[c].pc = "call"
    /\ add_printer_to_db(race[c].arg)
    /\ race' = [race EXCEPT ![c].pc = "returned"]
    /\ UNCHANGED calls

(* get_or_create_printer by caller c: the SELECT *)
RaceSelect(c) ==
    /\ race[c].fn = "get_or_create_printer"
    /\ race[c].pc = "call"
    /\ race' = [race EXCEPT ![c].pc = "write",
                            ![c].found = SelectIdByIp(printers, race[c].arg.ip)]
    /\ UNCHANGED storeVars

(* get_or_create_printer by caller c after the SELECT: the UPDATE of a     *)
(* NULL model, or the INSERT, whose IntegrityError nothing in the function *)
(* catches                                                                 *)
RaceWrite(c) ==
    /\ race[c].pc = "write"
    /\ LET call == race[c]
       IN  IF ~IsNone(call.found)
           THEN /\ printers' = IF ~IsNone(call.model)
                               THEN UpdateModelIfNull(printers, Val(call.found),
                                                      Val(call.model))
                               ELSE printers
                /\ race' = [race EXCEPT ![c].pc = "returned",
                                        ![c].ret = Val(call.found)]
                /\ UNCHANGED <<seqPrinters, now>>
           ELSE IF UniqueViolation(printers, call.arg.ip)
                THEN /\ race' = [race EXCEPT ![c].pc = "raised"]
                     /\ UNCHANGED <<printers, seqPrinters, now>>
                ELSE \E ts \in Instants :
                     /\ printers' = InsertPrinter(printers, seqPrinters, call.arg.ip,
                                                  call.arg.name,
                                                  Some(call.arg.location),
                                                  call.model, ts)
                     /\ seqPrinters' = seqPrinters + 1
                     /\ now' = ts
                     /\ race' = [race EXCEPT ![c].pc = "returned",
                                             ![c].ret = seqPrinters + 1]
    /\ UNCHANGED <<metrics, seqMetrics, addRet, mon, saved, calls>>

Init == StoreInit /\ ExtractIdle /\ CalcIdle /\ ProbeIdle /\ ScanIdle /\ WalkIdle /\ UsageIdle /\ RaceIdle

Next ==
    \/ \E printer \in Candidates :
         AddPrinterToDb(printer) /\ UNCHANGED <<extractVars, calcVars, probeVars, scanVars, walkVars, usageVars, raceVars>>
    \/ MonitorStart /\ UNCHANGED <<extractVars, calcVars, probeVars, scanVars, walkVars, usageVars, raceVars>>
    \/ MonitorCollect /\ UNCHANGED <<extractVars, calcVars, probeVars, scanVars, walkVars, usageVars, raceVars>>
    \/ GocWrite /\ UNCHANGED <<extractVars, calcVars, probeVars, scanVars, walkVars, usageVars, raceVars>>
    \/ SaveMetrics /\ UNCHANGED <<extractVars, calcVars, probeVars, scanVars, walkVars, usageVars, raceVars>>
    \/ \E r \in printers : DeletePrinter(r.id) /\ UNCHANGED <<extractVars, calcVars, probeVars, scanVars, walkVars, usageVars, raceVars>>

Spec == Init /\ [][Next]_vars

(* The core alone: discovery and monitoring, no dashboard *)
NextCore ==
    \/ \E printer \in Candidates :
         AddPrinterToDb(printer) /\ UNCHANGED <<extractVars, calcVars, probeVars, scanVars, walkVars, usageVars, raceVars>>
    \/ MonitorStart /\ UNCHANGED <<extractVars, calcVars, probeVars, scanVars, walkVars, usageVars, raceVars>>
    \/ MonitorCollect /\ UNCHANGED <<extractVars, calcVars, probeVars, scanVars, walkVars, usageVars, raceVars>>
    \/ GocWrite /\ UNCHANGED <<extractVars, calcVars, probeVars, scanVars, walkVars, usageVars, raceVars>>
    \/ SaveMetrics /\ UNCHANGED <<extractVars, calcVars, probeVars, scanVars, walkVars, usageVars, raceVars>>

SpecCore == Init /\ [][NextCore]_vars

InitExtract == StoreInit /\ ExtractInit /\ CalcIdle /\ ProbeIdle /\ ScanIdle /\ WalkIdle /\ UsageIdle /\ RaceIdle

NextExtract ==
    \/ ExtractBasic /\ UNCHANGED <<storeVars, calcVars, probeVars, scanVars, walkVars, usageVars, raceVars>>
    \/ ExtractSupply /\ UNCHANGED <<storeVars, calcVars, probeVars, scanVars, walkVars, usageVars, raceVars>>
    \/ ExtractReturn /\ UNCHANGED <<storeVars, calcVars, probeVars, scanVars, walkVars, usageVars, raceVars>>

SpecExtract == InitExtract /\ [][NextExtract]_vars

InitCalc == StoreInit /\ ExtractIdle /\ CalcInit /\ ProbeIdle /\ ScanIdle /\ WalkIdle /\ UsageIdle /\ RaceIdle

NextCalc == Derive /\ UNCHANGED <<storeVars, extractVars, probeVars, scanVars, walkVars, usageVars, raceVars>>

SpecCalc == InitCalc /\ [][NextCalc]_vars

InitProbe == StoreInit /\ ExtractIdle /\ CalcIdle /\ ProbeInit /\ ScanIdle /\ WalkIdle /\ UsageIdle /\ RaceIdle

NextProbe == ProbeCall /\ UNCHANGED <<storeVars, extractVars, calcVars, scanVars, walkVars, usageVars, raceVars>>

SpecProbe == InitProbe /\ [][NextProbe]_vars

(* The store a discovery run finds: one printer of an earlier run *)
StoreKnown ==
    /\ printers = { PrinterRow(1, "192.0.2.1", "Printer-192.0.2.1",
                               Some("Auto-discovered"), Some("Unknown"), 0) }
    /\ seqPrinters = 1
    /\ metrics = {} /\ seqMetrics = 0 /\ now = 0
    /\ addRet = None /\ mon = MonIdle /\ saved = <<>> /\ calls = 0

InitScan == StoreKnown /\ ExtractIdle /\ CalcIdle /\ ProbeIdle /\ ScanInit /\ WalkIdle /\ UsageIdle /\ RaceIdle

NextScan ==
    \/ SubnetStart /\ UNCHANGED <<storeVars, extractVars, calcVars, probeVars, walkVars, usageVars, raceVars>>
    \/ \E ip \in DOMAIN pings :
         PingRun(ip) /\ UNCHANGED <<storeVars, extractVars, calcVars, probeVars, walkVars, usageVars, raceVars>>
    \/ \E ip \in DOMAIN pings :
         SweepCollect(ip) /\ UNCHANGED <<storeVars, extractVars, calcVars, probeVars, walkVars, usageVars, raceVars>>
    \/ SweepEmpty /\ UNCHANGED <<storeVars, extractVars, calcVars, probeVars, walkVars, usageVars, raceVars>>
    \/ SweepLive /\ UNCHANGED <<storeVars, extractVars, calcVars, probeVars, walkVars, usageVars, raceVars>>
    \/ SweepFallback /\ UNCHANGED <<storeVars, extractVars, calcVars, probeVars, walkVars, usageVars, raceVars>>
    \/ \E ip \in DOMAIN tasks :
         ClassifyStart(ip) /\ UNCHANGED <<storeVars, extractVars, calcVars, probeVars, walkVars, usageVars, raceVars>>
    \/ \E ip \in DOMAIN tasks :
         ClassifyEnd(ip) /\ UNCHANGED <<storeVars, extractVars, calcVars, probeVars, walkVars, usageVars, raceVars>>
    \/ \E ip \in DOMAIN tasks :
         ProbeCollect(ip) /\ UNCHANGED <<storeVars, extractVars, calcVars, probeVars, walkVars, usageVars, raceVars>>
    \/ SubnetDone /\ UNCHANGED <<storeVars, extractVars, calcVars, probeVars, walkVars, usageVars, raceVars>>
    \/ ScanReturn /\ UNCHANGED <<storeVars, extractVars, calcVars, probeVars, walkVars, usageVars, raceVars>>
    \/ ReportOnly /\ UNCHANGED <<storeVars, extractVars, calcVars, probeVars, walkVars, usageVars, raceVars>>
    \/ MainAsk /\ UNCHANGED <<storeVars, extractVars, calcVars, probeVars, walkVars, usageVars, raceVars>>
    \/ MainAdd /\ UNCHANGED <<extractVars, calcVars, probeVars, walkVars, usageVars, raceVars>>

SpecScan == InitScan /\ [][NextScan]_vars

InitWalk ==
    StoreInit /\ ExtractIdle /\ CalcIdle /\ ProbeIdle /\ ScanIdle /\ WalkInit
        /\ UsageIdle /\ RaceIdle

NextWalk ==
    \/ WalkProbe /\ UNCHANGED <<storeVars, extractVars, calcVars, probeVars, scanVars, usageVars, raceVars>>
    \/ WalkReturn /\ UNCHANGED <<storeVars, extractVars, calcVars, probeVars, scanVars, usageVars, raceVars>>

SpecWalk == InitWalk /\ [][NextWalk]_vars

InitUsage ==
    StoreInit /\ ExtractIdle /\ CalcIdle /\ ProbeIdle /\ ScanIdle /\ WalkIdle
        /\ UsageInit /\ RaceIdle

NextUsage ==
    \/ \E id \in UsagePrinters :
         UsageQuery(id) /\ UNCHANGED <<storeVars, extractVars, calcVars, probeVars, scanVars, walkVars, raceVars>>
    \/ UsageReport /\ UNCHANGED <<storeVars, extractVars, calcVars, probeVars, scanVars, walkVars, raceVars>>

SpecUsage == InitUsage /\ [][NextUsage]_vars

InitRace ==
    StoreInit /\ ExtractIdle /\ CalcIdle /\ ProbeIdle /\ ScanIdle /\ WalkIdle
        /\ UsageIdle /\ RaceInit

NextRace ==
    \/ \E c \in RaceCallers :
         RaceAdd(c) /\ UNCHANGED <<extractVars, calcVars, probeVars, scanVars, walkVars, usageVars>>
    \/ \E c \in RaceCallers :
         RaceSelect(c) /\ UNCHANGED <<extractVars, calcVars, probeVars, scanVars, walkVars, usageVars>>
    \/ \E c \in RaceCallers :
         RaceWrite(c) /\ UNCHANGED <<extractVars, calcVars, probeVars, scanVars, walkVars, usageVars>>

SpecRace == InitRace /\ [][NextRace]_vars


----------------------------------------------------------------------------
(* Properties of the store *)

RowsOf(ip) == { r \in printers : r.ip = ip }
SamplesOf(printer_id) == { m \in metrics : m.printer_id = printer_id }

(* C1: add_printer_to_db called for an address that is stored with another *)
(* model leaves exactly one row for the address, with the model of this    *)
(* call and the id and first_seen the row had before it.                   *)
C1_SecondCallWins ==
    addRet # None =>
        LET a == Val(addRet)
        IN  (\E q \in a.prior : q.model # Some(a.printer.model)) =>
                /\ Cardinality(RowsOf(a.printer.ip)) = 1
                /\ \A r \in RowsOf(a.printer.ip) :
                     /\ r.model = Some(a.printer.model)
                     /\ \A q \in a.prior :
                          r.first_seen = q.first_seen /\ r.id = q.id

(* The second call came at a later instant than the first *)
C1_Witness ==
    /\ addRet # None
    /\ \E q \in Val(addRet).prior :
         /\ q.model # Some(Val(addRet).printer.model)
         /\ q.first_seen < now
    /\ ~Val(addRet).created

UniqueAddr == \A r, q \in printers : r.ip = q.ip => r = q

(* C2: no two rows of printers have the same address, whatever the order   *)
(* of add_printer_to_db, get_or_create_printer and delete_printer steps,   *)
(* and an add_printer_to_db call for a stored address leaves the number of *)
(* rows as it was.                                                         *)
C2_AddressUnique ==
    /\ []UniqueAddr
    /\ [][(addRet' # None /\ Val(addRet').prior # {})
            => Cardinality(printers') = Cardinality(printers)]_vars

(* get_or_create_printer has inserted a row beside one of another address *)
C2_Witness ==
    /\ mon.pc = "save"
    /\ IsNone(mon.found)
    /\ Cardinality(printers) = 2
    /\ \E r \in printers : r.id = mon.printer_id

(* C3: a row keeps its address and first_seen for as long as it has its    *)
(* id, and no step of add_printer_to_db, get_or_create_printer or          *)
(* save_metrics removes a row.                                             *)
C3_IdentityFixed ==
    [][/\ \A r \in printers : \A q \in printers' :
            r.id = q.id => (r.ip = q.ip /\ r.first_seen = q.first_seen)
       /\ (addRet' # None \/ mon' # mon) =>
            \A r \in printers : \E q \in printers' : q.id = r.id]_vars

(* get_or_create_printer found a row made at an earlier instant and wrote  *)
(* the model it had been missing                                           *)
C3_Witness ==
    /\ mon.pc = "save"
    /\ ~IsNone(mon.found)
    /\ \E r \in printers :
         /\ r.id = mon.printer_id
         /\ r.first_seen < now
         /\ r.model = Some("HP LaserJet")
         /\ r.name = "Printer-192.0.2.1"

(* C4: add_printer_to_db returns True exactly when no row had the address, *)
(* and then there is one new row with the call's fields; it returns False  *)
(* exactly when a row had it, and then that row has the call's name, model *)
(* and location and is otherwise as before.                                *)
C4_CreatedIffAbsent ==
    addRet # None =>
        LET a == Val(addRet)
            p == a.printer
        IN  /\ a.created <=> a.prior = {}
            /\ a.created =>
                 /\ Cardinality(RowsOf(p.ip)) = 1
                 /\ \A r \in RowsOf(p.ip) :
                      /\ r.name = p.name
                      /\ r.model = Some(p.model)
                      /\ r.location = Some(p.location)
                      /\ r.id = seqPrinters
            /\ ~a.created =>
                 RowsOf(p.ip) = { [q EXCEPT !.name = p.name,
                                            !.model = Some(p.model),
                                            !.location = Some(p.location)] :
                                  q \in a.prior }

(* An update that changed the name, the model and the location *)
C4_Witness ==
    /\ addRet # None
    /\ ~Val(addRet).created
    /\ \E q \in Val(addRet).prior :
         /\ q.name # Val(addRet).printer.name
         /\ q.location # Some(Val(addRet).printer.location)
         /\ q.model # Some(Val(addRet).printer.model)

SavedCount(printer_id) == IF printer_id \in DOMAIN saved THEN saved[printer_id] ELSE 0

(* C5: under discovery and monitoring, a device has as many rows in        *)
(* metrics as save_metrics calls succeeded for it, and every row of        *)
(* metrics stays, with its values.                                         *)
C5_PureInsert ==
    /\ [](\A id \in 1..seqPrinters : Cardinality(SamplesOf(id)) = SavedCount(id))
    /\ [][\A m \in metrics : m \in metrics']_vars

(* Two samples of one device *)
C5_Witness == \E id \in DOMAIN saved : saved[id] = 2 /\ Cardinality(SamplesOf(id)) = 2

SampleFields == {"total_pages", "toner_level_pct", "toner_status",
                 "drum_level_pct", "device_status"}

(* C6: no row of metrics has total_pages, toner_level_pct, toner_status,   *)
(* drum_level_pct and device_status all NULL.                              *)
C6_NoEmptySample == \A m \in metrics : \E k \in SampleFields : ~IsNone(m[k])

----------------------------------------------------------------------------
(* Properties of the extractor *)

Probe(raw) == snmp_get(raw)

AllProbesAbsent(dev) ==
    /\ IsNone(Probe(dev.total_pages))
    /\ IsNone(Probe(dev.model))
    /\ IsNone(Probe(dev.device_status))
    /\ \A i \in SupplyIndexes : \A k \in SupplyKeys : IsNone(Probe(dev.supplies[i][k]))

NumericAnswer(raw) == ~IsNone(Probe(raw)) /\ IsIntText(Val(Probe(raw)))

DescOf(row) ==
    IF IsNone(Probe(row["description"])) THEN "" ELSE lower(Val(Probe(row["description"])))

Readable(row) ==
    ~IsNone(Probe(row["current_level"])) /\ ~IsNone(Probe(row["max_capacity"]))

TonerRow(row) ==
    Readable(row) /\ Contains(DescOf(row), "toner") /\ Contains(DescOf(row), "black")

(* A drum row from which a percentage derives *)
DrumPctRow(row) ==
    /\ Readable(row)
    /\ Contains(DescOf(row), "drum")
    /\ ~(Contains(DescOf(row), "toner") /\ Contains(DescOf(row), "black"))
    /\ NumericAnswer(row["current_level"]) /\ NumericAnswer(row["max_capacity"])
    /\ ParseInt(Val(Probe(row["current_level"]))) >= 0
    /\ ParseInt(Val(Probe(row["max_capacity"]))) > 0

(* Counter, model, device status, toner or drum resolved to a value *)
AnyResolved(dev) ==
    \/ NumericAnswer(dev.total_pages)
    \/ ~IsNone(Probe(dev.model))
    \/ NumericAnswer(dev.device_status)
    \/ \E i \in SupplyIndexes : TonerRow(dev.supplies[i])
    \/ \E i \in SupplyIndexes : DrumPctRow(dev.supplies[i])

(* C7: get_printer_metrics_async returns None exactly when none of the     *)
(* counter, the model, the device status, the toner and the drum resolved  *)
(* to a value; with every probe absent it returns None, and a dict it      *)
(* returns has a value that is not None.                                   *)
C7_EmptyIffNothingResolved ==
    xpc = "done" =>
        /\ IsNone(xres) <=> ~AnyResolved(xdev)
        /\ AllProbesAbsent(xdev) => IsNone(xres)
        /\ ~IsNone(xres) => \E k \in MetricKeys : ~IsNone(Val(xres)[k])

(* Every probe absent, by an error status, a placeholder or no answer *)
C7_Witness ==
    /\ xpc = "done"
    /\ AllProbesAbsent(xdev)
    /\ IsNone(xres)
    /\ xdev.model.err = "status"
    /\ xdev.device_status.err = "none"

(* C10: a sample never has both toner_level_pct and toner_status *)
C10_TonerExclusive ==
    (xpc = "done" /\ ~IsNone(xres)) =>
        ~(~IsNone(Val(xres)["toner_level_pct"]) /\ ~IsNone(Val(xres)["toner_status"]))

(* The device of the end-to-end case: counter, model and status do not     *)
(* resolve, the supply table has one row, "Black Toner Cartridge" in       *)
(* percent at level 17 with no capacity, and nothing at the other indexes  *)
PercentOnlyDevice(dev) ==
    /\ IsNone(snmp_get(dev.total_pages))
    /\ IsNone(snmp_get(dev.model))
    /\ IsNone(snmp_get(dev.device_status))
    /\ LET supply == get_supply_info(dev, SupplyIndexFirst)
       IN  /\ supply["description"] = Some("Black Toner Cartridge")
           /\ supply["unit"] = Some(UnitPercent)
           /\ supply["current_level"] = Some("17")
           /\ IsNone(supply["max_capacity"])
    /\ \A i \in SupplyIndexes \ {SupplyIndexFirst} :
          SupplyIsEmpty(get_supply_info(dev, i))

(* C21: the extractor run on that device returns a sample with             *)
(* toner_level_pct 17 and no toner_status, the one sample the cycle saves  *)
(* for the one device discovery stored.                                    *)
C21_PercentRowSample ==
    (xpc = "done" /\ PercentOnlyDevice(xdev)) =>
        /\ ~IsNone(xres)
        /\ Val(xres)["toner_level_pct"] = Some(17)
        /\ IsNone(Val(xres)["toner_status"])

----------------------------------------------------------------------------
(* Properties of the derivation *)

IsMatchedRow(supply) ==
    LET desc == lower(Val(supply["description"]))
    IN  (Contains(desc, "toner") /\ Contains(desc, "black")) \/ Contains(desc, "drum")

(* C8: for a toner or drum row whose unit is percent, the percentage is    *)
(* current_level whatever max_capacity is, and no status is set.           *)
C8_PercentIsLevel ==
    (/\ ~IsNone(calcOut)
     /\ calcIn["unit"] = Some(UnitPercent)
     /\ IsMatchedRow(calcIn)
     /\ IsIntText(Val(calcIn["current_level"]))) =>
        LET m == Val(calcOut).m
            level == Some(ParseInt(Val(calcIn["current_level"])))
        IN  /\ IsNone(m["toner_status"])
            /\ IF Contains(lower(Val(calcIn["description"])), "toner")
               THEN m["toner_level_pct"] = level
               ELSE m["drum_level_pct"] = level

(* The derivation as the cases state it; a status of another negative code *)
(* is any text that carries the code.                                      *)
DerivedAsStated(current_val, max_val, r) ==
    IF current_val = -3 THEN r = <<None, Some("OK")>>
    ELSE IF current_val = -2 THEN r = <<None, Some("Unknown")>>
    ELSE IF current_val < 0
         THEN IsNone(r[1]) /\ ~IsNone(r[2]) /\ Contains(Val(r[2]), ToString(current_val))
    ELSE IF max_val > 0
         THEN r = <<Some((100 * current_val) \div max_val), None>>
    ELSE r = <<None, Some("Cannot calculate")>>

(* C9: for a unit other than percent and integer current_level and         *)
(* max_capacity, the derivation gives "OK" for -3, "Unknown" for -2, the   *)
(* code as text for another negative level, floor(current_level /          *)
(* max_capacity * 100) for a positive max_capacity and "Cannot calculate"  *)
(* otherwise, and no percentage beside a status.                           *)
C9_DerivationCases ==
    (/\ ~IsNone(calcOut)
     /\ calcIn["unit"] # Some(UnitPercent)
     /\ Val(calcOut).called
     /\ IsIntText(Val(calcIn["current_level"]))
     /\ IsIntText(Val(calcIn["max_capacity"]))) =>
        DerivedAsStated(ParseInt(Val(calcIn["current_level"])),
                        ParseInt(Val(calcIn["max_capacity"])),
                        Val(calcOut).r)

(* A row the loop body reads: current_level and max_capacity both answered *)
IsReadableRow(supply) ==
    ~IsNone(supply["current_level"]) /\ ~IsNone(supply["max_capacity"])

(* C11: a readable row of the toner channel leaves toner_level_pct or      *)
(* toner_status in the sample, and a readable row of the drum channel      *)
(* leaves the drum channel populated; the sample's only drum field is      *)
(* drum_level_pct.  Stated for the units other than percent, where the     *)
(* derivation goes by current_level and max_capacity.                      *)
C11_ChannelPopulated ==
    (/\ ~IsNone(calcOut)
     /\ calcIn["unit"] # Some(UnitPercent)
     /\ IsReadableRow(calcIn)
     /\ IsMatchedRow(calcIn)) =>
        LET m == Val(calcOut).m
            desc == lower(Val(calcIn["description"]))
        IN  IF Contains(desc, "toner") /\ Contains(desc, "black")
            THEN ~IsNone(m["toner_level_pct"]) \/ ~IsNone(m["toner_status"])
            ELSE ~IsNone(m["drum_level_pct"])

(* C12: a percentage the loop body stores lies in 0..100, for the units    *)
(* other than percent already.                                             *)
C12_PctInRange ==
    (~IsNone(calcOut) /\ calcIn["unit"] # Some(UnitPercent)) =>
        \A k \in {"toner_level_pct", "drum_level_pct"} :
            ~IsNone(Val(calcOut).m[k]) =>
                (Val(Val(calcOut).m[k]) >= 0 /\ Val(Val(calcOut).m[k]) <= 100)

----------------------------------------------------------------------------
(* Properties of the probe *)

IsBlank(text) == \A i \in 1..Len(text) : SubSeq(text, i, i) \in {" ", "\t", "\n", "\r"}

IsPlaceholder(text) ==
    \E i \in 1..Len(text) : i + 6 <= Len(text) /\ SubSeq(text, i, i + 6) = "No Such"

(* C13: snmp_get raises nothing; it returns None for an exception, an      *)
(* error indication, an error status, an empty or whitespace-only value    *)
(* and a value holding "No Such", and the value itself otherwise.          *)
C13_ProbeNeverRaises ==
    ~IsNone(probeOut) =>
        LET raw == Val(probeIn)
            out == Val(probeOut)
            absent == \/ raw.err # "none"
                      \/ IsBlank(raw.value)
                      \/ IsPlaceholder(raw.value)
        IN  /\ ~out.raised
            /\ absent => IsNone(out.ret)
            /\ ~absent => out.ret = Some(raw.value)

(* A whitespace-only answer was taken as absent *)
C13_Witness ==
    /\ ~IsNone(probeOut)
    /\ Val(probeIn) = Raw("none", " \t\n")
    /\ IsNone(Val(probeOut).ret)
    /\ probeImpl = "printer_monitor"

----------------------------------------------------------------------------
(* Properties of discovery *)

Scanning == spc \in {"sweep", "probe"}

CurrentNet == ip_network(subnet_list[sidx].subnet)

(* The addresses of the subnet under scan, the first and the last included *)
SubnetAddrs ==
    { AddrText(n) : n \in CurrentNet.network_address..CurrentNet.broadcast_address }

LiveSet == { live_hosts[i] : i \in 1..Len(live_hosts) }

(* C14 as stated: what the sweep returns lies in the subnet, holds neither *)
(* the network nor the broadcast address of any subnet, and holds only     *)
(* addresses whose own ping returned 0.                                    *)
C14_SweepSubset ==
    Scanning =>
        \A ip \in LiveSet :
            /\ ip \in SubnetAddrs
            /\ ip # AddrText(CurrentNet.network_address)
            /\ ip # AddrText(CurrentNet.broadcast_address)
            /\ pings[ip].rc = "0"

(* C14: what the sweep returns lies in the subnet and holds only addresses *)
(* whose own ping returned 0; for a prefix length up to 30 it holds        *)
(* neither the network nor the broadcast address, while the two addresses  *)
(* of a /31 and the one address of a /32 are hosts.                        *)
C14_SweepSubsetOfHosts ==
    Scanning =>
        \A ip \in LiveSet :
            /\ ip \in SubnetAddrs
            /\ CurrentNet.prefixlen <= 30 =>
                 /\ ip # AddrText(CurrentNet.network_address)
                 /\ ip # AddrText(CurrentNet.broadcast_address)
            /\ pings[ip].rc = "0"

(* The sweep of a /30 is over: one host answered, the other timed out *)
C14_Witness ==
    /\ spc = "sweep"
    /\ CurrentNet.prefixlen = 30
    /\ subnet_list[sidx].subnet.addr # CurrentNet.network_address
    /\ AllTaken(pings)
    /\ Len(live_hosts) = 1
    /\ \E ip \in DOMAIN pings : pings[ip].rc = "TimeoutExpired"

Finished(futures) == { ip \in DOMAIN futures : futures[ip].st \in {"done", "taken"} }

(* C15: check_if_printer gives None when sysDescr is absent, None when it  *)
(* is present without a keyword in its lower-cased text, and a candidate   *)
(* for the address when a keyword is in it, whatever sysName and model     *)
(* answer.                                                                 *)
C15_Classify ==
    spc = "probe" =>
        \A ip \in Finished(tasks) :
            LET host == Val(tasks[ip].host)
                descr == snmp_get_discovery(host.sysDescr)
                lowered == lower(Val(descr))
                matched == \E keyword \in printer_keywords : Contains(lowered, keyword)
            IN  /\ IsNone(descr) => IsNone(tasks[ip].result)
                /\ (~IsNone(descr) /\ ~matched) => IsNone(tasks[ip].result)
                /\ (~IsNone(descr) /\ matched) =>
                     /\ ~IsNone(tasks[ip].result)
                     /\ Val(tasks[ip].result).ip = ip
                     /\ Val(tasks[ip].result).description = Val(descr)

(* A candidate whose keyword is in upper case and whose name and model did *)
(* not resolve                                                             *)
C15_Witness ==
    /\ spc = "probe"
    /\ prog = "auto_configure_monitoring"
    /\ \E ip \in Finished(tasks) :
         /\ ~IsNone(tasks[ip].result)
         /\ IsNone(snmp_get_discovery(Val(tasks[ip].host).sysName))
         /\ IsNone(snmp_get_discovery(Val(tasks[ip].host).model))
         /\ Val(tasks[ip].result).name = "Printer-" \o ip

PhaseSteps ==
    { <<"PENDING", "SWEEPING">>, <<"SWEEPING", "PROBING">>,
      <<"PROBING", "DONE">>, <<"SWEEPING", "DONE">> }

(* C16: a subnet goes from PENDING to SWEEPING to PROBING to DONE, or from *)
(* SWEEPING to DONE, and a subnet whose sweep found no live host is DONE   *)
(* at once with no address given to the classifier and nothing added to    *)
(* the batch.                                                              *)
C16_PhaseOrder ==
    /\ [][\A i \in DOMAIN phase :
            phase'[i] # phase[i] => <<phase[i], phase'[i]>> \in PhaseSteps]_vars
    /\ [](\A i \in DOMAIN phase :
            (phase[i] \in {"PROBING", "DONE"} /\ swept[i] = {}) =>
                /\ phase[i] = "DONE"
                /\ probed[i] = {}
                /\ \A k \in 1..Len(origin) : origin[k] # i)

(* C17: scan_ip_sync is given only addresses of the live set, and every    *)
(* device of the batch is an address whose ping returned 0 and whose       *)
(* description holds a keyword.                                            *)
C17_OnlyLiveClassified ==
    /\ \A i \in DOMAIN probed : phase[i] \in {"PROBING", "DONE"} => probed[i] \subseteq swept[i]
    /\ \A k \in 1..Len(all_printers) :
         /\ all_printers[k].ip \in swept[origin[k]]
         /\ LET lowered == lower(all_printers[k].description)
            IN  \E keyword \in printer_keywords : Contains(lowered, keyword)

(* Subnets are taken one at a time, in the order of the list *)
OneAtATime ==
    \A i, j \in DOMAIN phase :
        (i < j /\ phase[j] # "PENDING") => phase[i] = "DONE"

(* C18: a subnet is scanned only when those before it in the list are     *)
(* DONE, and in all_printers a device of an earlier subnet comes before    *)
(* every device of a later one.                                            *)
C18_BatchBySubnet ==
    /\ OneAtATime
    /\ Len(origin) = Len(all_printers)
    /\ \A k, l \in 1..Len(origin) : k < l => origin[k] <= origin[l]
    /\ \A k \in 1..Len(all_printers) :
         all_printers[k].ip \in HostAddrs(subnet_list[origin[k]])

(* Two devices of the first subnet, the higher address first, before a     *)
(* device of the second                                                    *)
C18_Witness ==
    /\ Len(all_printers) = 3
    /\ all_printers[1].ip = "192.0.2.2"
    /\ all_printers[2].ip = "192.0.2.1"
    /\ origin = <<1, 1, 2>>

(* C19: scan_ip_sync starts for no address while a ping of the subnet is   *)
(* unfinished, a subnet is DONE only when every scan_ip_sync future has    *)
(* finished, and the futures at hand are those of the one subnet that is   *)
(* neither PENDING nor DONE.                                               *)
C19_PhaseBarrier ==
    /\ []((\E ip \in DOMAIN tasks : tasks[ip].st # "pending") =>
             Finished(pings) = DOMAIN pings)
    /\ [][\A i \in DOMAIN phase :
            (phase[i] # "DONE" /\ phase'[i] = "DONE") =>
                Finished(tasks) = DOMAIN tasks]_vars
    /\ [](\A i \in DOMAIN phase :
            (i # sidx \/ spc \notin {"sweep", "probe"}) =>
                phase[i] \in {"PENDING", "DONE"})
    /\ [](Scanning =>
            /\ DOMAIN pings = HostAddrs(subnet_list[sidx])
            /\ DOMAIN tasks \subseteq HostAddrs(subnet_list[sidx]))
    /\ []OneAtATime

(* One scan_ip_sync runs while another waits for a worker *)
C19_Witness ==
    /\ spc = "probe"
    /\ sidx = 2
    /\ \E ip \in DOMAIN tasks : tasks[ip].st = "running"
    /\ \E ip \in DOMAIN tasks : tasks[ip].st = "pending"

(* C20: printers and metrics change only in a step of main's loop after    *)
(* the answer confirmed, and then by add_printer_to_db for the next        *)
(* discovered device; after a confirmed run every discovered device has    *)
(* had its call.                                                           *)
C20_NoImplicitPersistence ==
    /\ [][(printers' # printers \/ metrics' # metrics \/ addRet' # addRet) =>
            /\ spc = "adding"
            /\ response \in {"", "y", "yes"}
            /\ metrics' = metrics
            /\ addRet' = Some([printer |-> Head(addq), created |-> Val(addRet').created,
                               prior |-> Val(addRet').prior])]_vars
    /\ [](spc = "end" => addq = <<>>)
    /\ [](spc = "adding" =>
            Len(addq) >= 1 /\ addq = SubSeq(all_printers,
                                            Len(all_printers) - Len(addq) + 1,
                                            Len(all_printers)))

(* A confirmed run has updated the known printer and inserted another *)
C20_Witness ==
    /\ spc = "end"
    /\ response = "y"
    /\ Len(all_printers) >= 2
    /\ Cardinality(printers) >= 2
    /\ \E r \in printers : r.id = 1 /\ r.name = "LJ-Floor1"

----------------------------------------------------------------------------
(* Properties of the monitoring cycle against the store *)

(* A step of get_or_create_printer after its SELECT *)
GocStep == mon.pc = "write" /\ mon'.pc # "write"

(* C27: get_or_create_printer that found the address returns the id it     *)
(* found and leaves every row as it was but for the model, which it writes *)
(* only where the stored model is NULL and a model was supplied.           *)
C27_GocFrame ==
    [][(GocStep /\ ~IsNone(mon.found)) =>
          /\ mon'.pc = "save"
          /\ mon'.printer_id = Val(mon.found)
          /\ Cardinality(printers') = Cardinality(printers)
          /\ \A r \in printers : \E q \in printers' :
               /\ q.id = r.id /\ q.ip = r.ip /\ q.name = r.name
               /\ q.location = r.location /\ q.first_seen = r.first_seen
               /\ q.model # r.model =>
                    /\ IsNone(r.model)
                    /\ r.id = Val(mon.found)
                    /\ q.model = Val(mon.metrics)["model"]
                    /\ ~IsNone(q.model)
               /\ ~IsNone(r.model) => q.model = r.model]_vars

(* A step of a running cycle; no statement of the loop body waits *)
MonitorStep ==
    /\ MonitorCollect \/ GocWrite \/ SaveMetrics
    /\ UNCHANGED <<extractVars, calcVars, probeVars, scanVars, walkVars, usageVars, raceVars>>

(* SpecLive: Spec with a running cycle taking its next step *)
SpecLive == Spec /\ WF_vars(MonitorStep)

(* A device whose collection fails: no metrics at all, or a counter or a   *)
(* device status that answers with text that is no number                  *)
NonNumeric(raw) == ~IsNone(snmp_get(raw)) /\ ~IsIntText(Val(snmp_get(raw)))
HasFailure(dev) ==
    \/ IsNone(get_printer_metrics(dev))
    \/ NonNumeric(dev.total_pages)
    \/ NonNumeric(dev.device_status)

(* C23 as stated: no row of metrics holds the sample of a device with a    *)
(* failure (no metrics, or a non-numeric value where a number is required) *)
C23_NoSampleOnFailure ==
    \A m \in metrics : \A dev \in MonitorDevices :
        (HasFailure(dev) /\ ~IsNone(get_printer_metrics(dev))) =>
            \E k \in SampleFields : m[k] # Val(get_printer_metrics(dev))[k]

(* C23: in a cycle, a printer whose collection gives no metrics or whose   *)
(* get_or_create_printer raises gets no row of metrics, the loop goes on   *)
(* to the next printer and ends only after the last one, a printer that    *)
(* reaches save_metrics gets exactly its sample, and every cycle that has  *)
(* started completes.  (A non-numeric counter or status only leaves that   *)
(* field NULL in the sample.)                                              *)
C23_FailureIsolated ==
    /\ [][(mon.pc # "idle" /\ mon' # mon) =>
            /\ mon'.pc = "idle" => Len(mon.todo) = 1
            /\ mon'.pc # "idle" =>
                  \/ mon'.todo = mon.todo /\ mon'.pc # "collect"
                  \/ mon'.todo = Tail(mon.todo) /\ mon'.pc = "collect"
            /\ mon.pc \in {"collect", "write"} => metrics' = metrics
            /\ mon.pc = "save" =>
                  \E ts \in {now, now + 1} :
                     metrics' = metrics \cup
                        { MetricRow(seqMetrics + 1, mon.printer_id, ts,
                                    Val(mon.metrics)) }]_vars
    /\ (mon.pc # "idle") ~> (mon.pc = "idle")

(* A completed cycle over two printers: the first in the order of names    *)
(* has no sample, the one after it has                                     *)
C23_Witness ==
    /\ mon.pc = "idle"
    /\ \E r1, r2 \in printers :
         /\ ~StrLeq(r2.name, r1.name)
         /\ SamplesOf(r1.id) = {}
         /\ SamplesOf(r2.id) # {}

(* A cycle with a model at hand has met the row discovery wrote with the   *)
(* placeholder model, and the row still has it                             *)
C27_Witness ==
    /\ mon.pc = "save"
    /\ ~IsNone(mon.found)
    /\ Val(mon.metrics)["model"] = Some("HP LaserJet")
    /\ \E r \in printers : r.id = mon.printer_id /\ r.model = Some("Unknown")

(* C28: every row of metrics has the id of a row of printers *)
C28_DeviceRefExists ==
    \A m \in metrics : \E r \in printers : r.id = m.printer_id

(* C29: a step of the monitoring cycle adds no row to printers, and the    *)
(* cycle saves at most one sample for each printer it read at its start.   *)
C29_MonitorCreatesNoDevice ==
    [][(mon.pc # "idle") =>
          /\ (mon' # mon /\ addRet' = None) =>
                { r.id : r \in printers' } \subseteq { r.id : r \in printers }
          /\ Cardinality(metrics') <= Cardinality(metrics) + 1]_vars

----------------------------------------------------------------------------
(* Properties of the candidates *)

(* The name a candidate is shown under: its name, and in                   *)
(* printer_discovery.py the name the configuration snippet prints          *)
DisplayName(program, printer) ==
    IF program = "printer_discovery" THEN config_snippet_name(printer)
    ELSE printer.name

(* C25: the display name of a candidate is the device's sysName when it    *)
(* resolves, else its model when that resolves, else "Printer-" and the    *)
(* address; so it is not empty and not the same text for two addresses     *)
(* whose name and model did not resolve.                                   *)
C25_DisplayName ==
    spc = "probe" =>
        \A ip \in Finished(tasks) : ~IsNone(tasks[ip].result) =>
            LET host == Val(tasks[ip].host)
                name == snmp_get_discovery(host.sysName)
                model == snmp_get_discovery(host.model)
                shown == DisplayName(prog, Val(tasks[ip].result))
            IN  /\ shown # ""
                /\ shown = IF ~IsNone(name) THEN Val(name)
                           ELSE IF ~IsNone(model) THEN Val(model)
                           ELSE "Printer-" \o ip

(* The futures taken so far whose scan_ip_sync returned a candidate *)
TakenWithResult ==
    { ip \in DOMAIN tasks : tasks[ip].st = "taken" /\ ~IsNone(tasks[ip].result) }

(* The list of the subnet under scan holds the result of every future      *)
(* taken so far that has one, once, and nothing else, in whatever order    *)
(* the workers finished                                                    *)
CollectedOnce ==
    /\ Len(found) = Cardinality(TakenWithResult)
    /\ \A i \in 1..Len(found) :
         /\ found[i].ip \in TakenWithResult
         /\ found[i] = Val(tasks[found[i].ip].result)
    /\ \A i, j \in 1..Len(found) : found[i].ip = found[j].ip => i = j

(* C30: in a subnet scan the hosts classified are the live hosts of the    *)
(* sweep, and the result list holds exactly the candidates of those whose  *)
(* classification succeeded, each once, for every completion order.        *)
C30_LiveHostsOnce ==
    spc = "probe" =>
        /\ CollectedOnce
        /\ \A i \in 1..Len(found) : found[i].ip \in LiveSet
        /\ AllTaken(tasks) =>
              \A ip \in LiveSet :
                  (ip \in DOMAIN tasks /\ ~IsNone(tasks[ip].result)) =>
                      \E i \in 1..Len(found) : found[i].ip = ip

----------------------------------------------------------------------------
(* Properties of concurrent upserts *)

RaceOver == race # <<>> /\ \A c \in RaceCallers : race[c].pc \in {"returned", "raised"}

(* C22: two calls of add_printer_to_db, or two of get_or_create_printer,   *)
(* for one address on an empty store leave, in any interleaving, one row   *)
(* for the address, and neither raises IntegrityError to its caller.       *)
C22_NoConflictSurfaced ==
    (RaceOver /\ race[1].fn = race[2].fn) =>
        /\ Cardinality({ r \in printers : r.ip = RaceAddr }) = 1
        /\ \A c \in RaceCallers : race[c].pc = "returned"

----------------------------------------------------------------------------
(* Properties of the walk *)

(* The indexes of the column whose request gives a value *)
WalkPresent(i) == ~IsNone(snmp_get(wcol[i]))

(* C24: snmp_walk returns pairs of strictly increasing indexes, none below *)
(* 1 and no more than the index range has, and none whose index lies       *)
(* beyond an index that gave no value.                                     *)
C24_WalkStopsAtGap ==
    wpc = "done" =>
        /\ Len(wresults) <= WalkIndexStop - WalkIndexFirst
        /\ \A i \in 1..Len(wresults) : wresults[i][1] >= 1
        /\ \A i, j \in 1..Len(wresults) : i < j => wresults[i][1] < wresults[j][1]
        /\ \A i \in 1..Len(wresults) :
             \A j \in WalkIndexFirst..wresults[i][1] : WalkPresent(j)

----------------------------------------------------------------------------
(* Properties of the usage queries *)

(* Row a is read no later than row b: the order of timestamp, then of id *)
ReadBefore(a, b) ==
    a.timestamp < b.timestamp \/ (a.timestamp = b.timestamp /\ a.id <= b.id)

(* The counter does not go down from one reading of the window to the next *)
CounterMonotone(rows) ==
    \A a, b \in rows : ReadBefore(a, b) => Val(a.total_pages) <= Val(b.total_pages)

(* C26: pages_printed is NULL over an empty window and otherwise the       *)
(* greatest total_pages of the window minus the least, which is never      *)
(* negative and, when the counter does not go down in the order of         *)
(* timestamp (and id), is the newest reading minus the oldest; the report  *)
(* has one row for each printer with a reading in the window.              *)
C26_UsageIsMaxMinusMin ==
    ~IsNone(usageOut) =>
        LET in == Val(usageIn)
            out == Val(usageOut)
            W(id) == UsageWindow(in.metrics, id, in.cutoff)
        IN  /\ \A row \in out.rows :
                 LET rows == W(row.printer_id)
                     used == row.usage.pages_printed
                 IN  /\ rows = {} <=> IsNone(used)
                     /\ rows # {} =>
                          /\ Val(used) >= 0
                          /\ \E hi, lo \in rows :
                               /\ \A m \in rows :
                                    /\ Val(lo.total_pages) <= Val(m.total_pages)
                                    /\ Val(m.total_pages) <= Val(hi.total_pages)
                               /\ Val(used) = Val(hi.total_pages) - Val(lo.total_pages)
                          /\ CounterMonotone(rows) =>
                               \E newest, oldest \in rows :
                                  /\ \A m \in rows : ReadBefore(m, newest)
                                                     /\ ReadBefore(oldest, m)
                                  /\ Val(used) = Val(newest.total_pages)
                                                    - Val(oldest.total_pages)
            /\ out.fn = "generate_usage_report" =>
                 /\ { row.printer_id : row \in out.rows }
                       = { id \in in.printers : W(id) # {} }
                 /\ Cardinality(out.rows) = Cardinality({ row.printer_id : row \in out.rows })
            /\ out.fn = "get_printer_usage" =>
                 { row.printer_id : row \in out.rows } = { out.printer_id }

(* A window of three readings whose counter went down (30, 10, 20), with   *)
(* 20 pages reported                                                       *)
C26_Witness ==
    /\ ~IsNone(usageOut)
    /\ \E row \in Val(usageOut).rows :
         LET rows == UsageWindow(Val(usageIn).metrics, row.printer_id,
                                 Val(usageIn).cutoff)
         IN  /\ Cardinality(rows) = 3
             /\ ~CounterMonotone(rows)
             /\ row.usage.pages_printed = Some(20)

============================================================================
